---- MODULE Spec2Model ----
(***************************************************************************)
(* Async weather & news dashboard: the HTTP-GET-then-parse-JSON fetcher    *)
(* (utils/httpClient and the inline httpsGetJson variants) and the three   *)
(* orchestration entry points built on it (callbackController,             *)
(* promiseController, asyncController).                                    *)
(*                                                                         *)
(* One action is one event-loop turn: an I/O event delivered by Node       *)
(* together with every microtask (promise reaction) it triggers.           *)
(***************************************************************************)
EXTENDS Integers, Sequences, FiniteSets, TLC

VARIABLES
    \* ---- the fetcher, one request seen at the level of its stream events
    reqVariant,   \* which fetch function was called
    reqPhase,     \* "idle" | "sent" | "body" | "closed" | "threw"
    reqStatus,    \* res.statusCode once the response event fired
    reqBody,      \* the chunks the server sends for this response
    reqArrived,   \* how many of them have been emitted as 'data'
    reqListening, \* the response handler attached data/end listeners
    rawData,      \* rawData / errorBody / raw: what the listeners gathered
    reqCalls,     \* every cb(...) / resolve(...) / reject(...) made so far
    cbThrows,     \* the caller's callback throws when handed a payload
    reqOptions,   \* options.headers as the caller supplied them
    reqHeaders,   \* the headers of the request handed to https.get
    \* ---- the orchestrators
    entry,        \* the entry points (programs) started in this run
    scenario,     \* what each upstream API can answer in this run
    started,      \* entry points whose top-level code has run
    fetch,        \* per fetch slot: [st, res]
    out,          \* per entry point: the console, line by line
    allState,     \* per Promise.all: "none" | "pending" | "fulfilled" | "rejected"
    raceState,    \* the Promise.race of promiseController
    firstSettled, \* per Promise.all / Promise.race: the slot that settled first
    cbInvocations, \* per callback-style slot: how often its callback ran
    escaped,      \* exceptions and rejections that no handler caught
    wire          \* the requests each entry point sent, in the order sent

fetchVars == <<reqVariant, reqPhase, reqStatus, reqBody, reqArrived,
               reqListening, rawData, reqCalls, cbThrows, reqOptions,
               reqHeaders>>
orchVars == <<entry, scenario, started, fetch, out, allState, raceState,
              firstSettled, cbInvocations, escaped, wire>>
vars == <<fetchVars, orchVars>>

(***************************************************************************)
(* Bounds of the model.                                                    *)
(***************************************************************************)
\* Largest number of 'data' chunks one response body is split into.
MaxChunks == 3

(***************************************************************************)
(* JSON values as JavaScript sees them after JSON.parse.                   *)
(***************************************************************************)
JNull == [t |-> "null"]
JUndefined == [t |-> "undefined"]
JNum(s) == [t |-> "num", v |-> s]
JStr(s) == [t |-> "str", v |-> s]
JArr(s) == [t |-> "arr", a |-> s]
JObj(r) == [t |-> "obj", f |-> r]

\* v?.k : optional chaining on a parsed value.
OptGet(v, k) ==
    IF v.t = "obj" /\ k \in DOMAIN v.f THEN v.f[k] ELSE JUndefined

\* JavaScript truthiness of a parsed value.
Truthy(v) ==
    CASE v.t \in {"null", "undefined"} -> FALSE
      [] v.t = "num" -> v.v # "0"
      [] v.t = "str" -> v.v # ""
      [] OTHER -> TRUE

\* a ?? b
Coalesce(a, b) == IF a.t \in {"null", "undefined"} THEN b ELSE a

(***************************************************************************)
(* Response bodies.  A body is a sequence of chunks; the listeners          *)
(* concatenate them and JSON.parse reads the concatenation.  Every         *)
(* well-formed text that up to MaxChunks + 1 of these chunks can spell is  *)
(* a document of JsonDocs below; every other concatenation is malformed.   *)
(***************************************************************************)
FragWeatherOpen == "{\"current_weather\":"
FragWeatherRest == "{\"temperature\":22,\"windspeed\":8.3}}"
FragNull == "null"
FragClose == "}"

Fragments == {FragWeatherOpen, FragWeatherRest, FragNull, FragClose}

SeqsUpTo(S, n) == UNION {[1..k -> S] : k \in 0..n}

Bodies == SeqsUpTo(Fragments, MaxChunks)

RECURSIVE Concat(_)
Concat(chunks) ==
    IF chunks = <<>> THEN "" ELSE Head(chunks) \o Concat(Tail(chunks))

WeatherValue ==
    JObj([current_weather |->
            JObj([temperature |-> JNum("22"), windspeed |-> JNum("8.3")])])
ArticleX == JObj([title |-> JStr("X")])
ArticleY == JObj([title |-> JStr("Y")])

\* The well-formed documents of the model and the value each parses to.
JsonDocs ==
    [d \in {"null",
            "{}",
            "{\"current_weather\":{\"temperature\":22,\"windspeed\":8.3}}",
            "{\"current_weather\":null}",
            "{\"articles\":[]}",
            "{\"articles\":[{\"title\":\"X\"}]}",
            "{\"articles\":[{\"title\":\"X\"},{\"title\":\"Y\"}]}",
            "{\"articles\":[null]}",
            "{\"articles\":[{\"title\":\"X\"},null]}",
            "{\"articles\":null}",
            "[{\"title\":\"X\"},{\"title\":\"Y\"}]"} |->
       CASE d = "null" -> JNull
         [] d = "{}" -> JObj(<<>>)
         [] d = "{\"current_weather\":{\"temperature\":22,\"windspeed\":8.3}}" ->
                WeatherValue
         [] d = "{\"current_weather\":null}" -> JObj([current_weather |-> JNull])
         [] d = "{\"articles\":[]}" -> JObj([articles |-> JArr(<<>>)])
         [] d = "{\"articles\":[{\"title\":\"X\"}]}" ->
                JObj([articles |-> JArr(<<ArticleX>>)])
         [] d = "{\"articles\":[{\"title\":\"X\"},{\"title\":\"Y\"}]}" ->
                JObj([articles |-> JArr(<<ArticleX, ArticleY>>)])
         [] d = "{\"articles\":[null]}" -> JObj([articles |-> JArr(<<JNull>>)])
         [] d = "{\"articles\":[{\"title\":\"X\"},null]}" ->
                JObj([articles |-> JArr(<<ArticleX, JNull>>)])
         [] d = "{\"articles\":null}" -> JObj([articles |-> JNull])
         [] OTHER -> JArr(<<ArticleX, ArticleY>>)]

(***************************************************************************)
(* Errors and fetch outcomes.                                              *)
(***************************************************************************)
Err(kind, text, status, body) ==
    [kind |-> kind, text |-> text, status |-> status, body |-> body]

Success(v) == [ok |-> TRUE, val |-> v]
Failure(e) == [ok |-> FALSE, val |-> e]

\* JSON.parse(raw): the parsed value, or the SyntaxError it throws.
JsonParse(raw) ==
    IF raw \in DOMAIN JsonDocs
    THEN Success(JsonDocs[raw])
    ELSE Failure(Err("ParseError", "Unexpected token in JSON", 0, raw))

\* new Error(`HTTP request failed with status ${statusCode}: ${errorBody}`)
HttpStatusError(statusCode, errorBody) ==
    Err("HttpError", "HTTP request failed with status", statusCode, errorBody)

\* new Error(`Request failed. Status code: ${statusCode}`)
InlineStatusError(statusCode) ==
    Err("HttpError", "Request failed. Status code", statusCode, "")

\* The error Node emits on the request for a transport-level fault.
NetworkError == Err("TransportError", "ECONNRESET", 0, "")

\* new URL(url) on a string that is no URL.
InvalidUrlError == Err("TypeError", "Invalid URL", 0, "")

\* if (statusCode && statusCode >= 400)
HttpErrorThreshold == 400
IsHttpError(statusCode) == statusCode # 0 /\ statusCode >= HttpErrorThreshold

(***************************************************************************)
(* Request headers.  A header mapping gives every header name its value,   *)
(* or Absent when the mapping has no such key.                             *)
(***************************************************************************)
HeaderNames == {"User-Agent", "X-Api-Key", "Accept"}
Absent == "<absent>"
UserAgent == "AsyncWeatherNewsDashboard/1.0"

NoHeaders == [h \in HeaderNames |-> Absent]

\* Every options.headers a caller can pass.
CallerHeaders ==
    [HeaderNames -> {Absent, UserAgent, "Other/2.0"}]

\* { ...base, ...over }: a key of `over` replaces the same key of `base`.
Spread(base, over) ==
    [h \in HeaderNames |-> IF over[h] # Absent THEN over[h] ELSE base[h]]

\* headers: { "User-Agent": "AsyncWeatherNewsDashboard/1.0", ...options.headers }
RequestHeaders(headers) ==
    Spread([h \in HeaderNames |->
              IF h = "User-Agent" THEN UserAgent ELSE Absent],
           headers)

(***************************************************************************)
(* The fetcher at the level of its stream events.                          *)
(* httpGetJson / httpGetJsonPromise are utils/httpClient; httpsGetJson /    *)
(* httpsGetJsonPromise are the inline variants of callbackVersion.ts and   *)
(* asyncAwaitVersion.ts.                                                   *)
(***************************************************************************)
Variants ==
    {"httpGetJson", "httpGetJsonPromise", "httpsGetJson", "httpsGetJsonPromise"}

IsCallbackVariant(v) == v \in {"httpGetJson", "httpsGetJson"}
IsInlineVariant(v) == v \in {"httpsGetJson", "httpsGetJsonPromise"}

Statuses == {200, 399, 400, 500}

\* What the caller's callback throws when it chokes on a payload.
CallbackThrown == Err("TypeError", "Cannot read properties of null", 0, "")

\* One cb(...) / resolve(...) / reject(...): the event whose handler made it
\* and whether every chunk of the body had been emitted by then.
CallRec(at, drained, outcome) ==
    [at |-> at, drained |-> drained, outcome |-> outcome]

InitFetcher ==
    /\ reqVariant = "none"
    /\ reqPhase = "idle"
    /\ reqStatus = 0
    /\ reqBody = <<>>
    /\ reqArrived = 0
    /\ reqListening = FALSE
    /\ rawData = ""
    /\ reqCalls = <<>>
    /\ cbThrows = FALSE
    /\ reqOptions = NoHeaders
    /\ reqHeaders = NoHeaders

\* The synchronous part of a call: new URL(url) and https.get(...).  In
\* httpGetJson and httpsGetJson an invalid URL throws out of the function; in
\* the promise variants the throw happens inside the Promise executor and
\* becomes a rejection.  utils/httpClient builds the request options with the
\* merged headers; the inline variants take no options and hand the bare URL
\* to https.get, which sets no User-Agent of its own.
CallFetcher(variant, urlOk, throws, headers) ==
    /\ reqPhase = "idle"
    /\ reqVariant' = variant
    /\ cbThrows' = throws
    /\ reqOptions' = IF IsInlineVariant(variant) THEN NoHeaders ELSE headers
    /\ reqHeaders' = IF urlOk /\ ~IsInlineVariant(variant)
                     THEN RequestHeaders(headers) ELSE NoHeaders
    /\ IF urlOk
       THEN /\ reqPhase' = "sent"
            /\ reqCalls' = reqCalls
       ELSE IF IsCallbackVariant(variant)
            THEN /\ reqPhase' = "threw"
                 /\ reqCalls' = reqCalls
            ELSE /\ reqPhase' = "closed"
                 /\ reqCalls' =
                      Append(reqCalls,
                             CallRec("sync", FALSE, Failure(InvalidUrlError)))
    /\ UNCHANGED <<reqStatus, reqBody, reqArrived, reqListening, rawData>>

\* The 'response' event: the handler passed to https.get.
OnResponse(statusCode, body) ==
    /\ reqPhase = "sent"
    /\ reqPhase' = "body"
    /\ reqStatus' = statusCode
    /\ reqBody' = body
    /\ IF IsHttpError(statusCode) /\ IsInlineVariant(reqVariant)
       THEN \* callback(new Error(...)); res.resume(); return;
            /\ reqCalls' =
                 Append(reqCalls,
                        CallRec("response", Len(body) = 0,
                                Failure(InlineStatusError(statusCode))))
            /\ reqListening' = FALSE
       ELSE \* res.on("data", ...); res.on("end", ...);
            /\ reqCalls' = reqCalls
            /\ reqListening' = TRUE
    /\ UNCHANGED <<reqVariant, reqArrived, rawData, cbThrows, reqOptions,
                   reqHeaders>>

\* Mutant: the 'data' listener assigns the chunk instead of appending it.
OnDataKeepsLastChunk ==
    /\ reqPhase = "body"
    /\ reqArrived < Len(reqBody)
    /\ reqArrived' = reqArrived + 1
    /\ rawData' = IF reqListening THEN reqBody[reqArrived + 1] ELSE rawData
    /\ UNCHANGED <<reqVariant, reqPhase, reqStatus, reqBody, reqListening,
                   reqCalls, cbThrows, reqOptions, reqHeaders>>

\* A 'data' event: (chunk) => (rawData += chunk)
OnData ==
    /\ reqPhase = "body"
    /\ reqArrived < Len(reqBody)
    /\ reqArrived' = reqArrived + 1
    /\ rawData' =
         IF reqListening THEN rawData \o reqBody[reqArrived + 1] ELSE rawData
    /\ UNCHANGED <<reqVariant, reqPhase, reqStatus, reqBody, reqListening,
                   reqCalls, cbThrows, reqOptions, reqHeaders>>

\* The 'end' listener: the outcomes it hands to cb / resolve / reject.
\* On the parse path cb(null, parsedData) sits inside the try block, so what
\* the callback throws is caught and handed to the same callback again.
EndHandler(variant, statusCode, raw, throws) ==
    IF IsHttpError(statusCode)
    THEN <<Failure(HttpStatusError(statusCode, raw))>>
    ELSE LET parsed == JsonParse(raw) IN
         IF parsed.ok /\ IsCallbackVariant(variant) /\ throws
         THEN <<parsed, Failure(CallbackThrown)>>
         ELSE <<parsed>>

\* The 'end' event: emitted once every chunk has been emitted.
OnEnd ==
    /\ reqPhase = "body"
    /\ reqArrived = Len(reqBody)
    /\ reqPhase' = "closed"
    /\ reqCalls' =
         IF reqListening
         THEN LET made == EndHandler(reqVariant, reqStatus, rawData, cbThrows)
              IN  reqCalls \o [i \in 1..Len(made) |->
                                 CallRec("end", TRUE, made[i])]
         ELSE reqCalls
    /\ UNCHANGED <<reqVariant, reqStatus, reqBody, reqArrived, reqListening,
                   rawData, cbThrows, reqOptions, reqHeaders>>

\* Mutant: the 'error' listener parses what has arrived so far.
OnErrorParsesPartialBody ==
    /\ reqPhase \in {"sent", "body"}
    /\ reqPhase' = "closed"
    /\ reqCalls' = Append(reqCalls, CallRec("error", FALSE, JsonParse(rawData)))
    /\ UNCHANGED <<reqVariant, reqStatus, reqBody, reqArrived, reqListening,
                   rawData, cbThrows, reqOptions, reqHeaders>>

\* The request's 'error' event: a transport fault before the response or
\* while its body is still arriving.
OnError ==
    /\ reqPhase \in {"sent", "body"}
    /\ reqPhase' = "closed"
    /\ reqCalls' = Append(reqCalls, CallRec("error", FALSE, Failure(NetworkError)))
    /\ UNCHANGED <<reqVariant, reqStatus, reqBody, reqArrived, reqListening,
                   rawData, cbThrows, reqOptions, reqHeaders>>

\* The connection closes cleanly after the headers, before the body is
\* complete: the response emits 'aborted' and 'close', for which no listener
\* is attached; in current Node releases neither 'end' nor the request's
\* 'error' follows.
OnAborted ==
    /\ reqPhase = "body"
    /\ reqArrived < Len(reqBody)
    /\ reqPhase' = "closed"
    /\ UNCHANGED <<reqVariant, reqStatus, reqBody, reqArrived, reqListening,
                   rawData, reqCalls, cbThrows, reqOptions, reqHeaders>>

(***************************************************************************)
(* The view: views/dashboardView.  Every console.log / console.error call  *)
(* is one line of the console.                                             *)
(***************************************************************************)
NoErr == Err("none", "", 0, "")

Log(kind, label, text) ==
    [ch |-> "stdout", kind |-> kind, label |-> label, text |-> text,
     err |-> NoErr]

\* `${v}` for a parsed value.
Render(v) ==
    CASE v.t \in {"num", "str"} -> v.v
      [] v.t = "null" -> "null"
      [] v.t = "undefined" -> "undefined"
      [] v.t = "arr" -> "[array]"
      [] OTHER -> "[object Object]"

displayHeader(version) ==
    <<Log("rule", version, ""), Log("title", version, ""),
      Log("version", version, version), Log("rule", version, "")>>

displayFooter(version) ==
    <<Log("rule", version, ""), Log("complete", version, version),
      Log("rule", version, "")>>

displayError(context, error) ==
    <<[ch |-> "stderr", kind |-> "error", label |-> context,
       text |-> error.text, err |-> error]>>

\* Mutant: no check that current_weather is there before it is printed.
displayWeatherNoGuard(data, label) ==
    LET weather == OptGet(data, "current_weather") IN
    <<Log("temperature", label, Render(OptGet(weather, "temperature"))),
      Log("windspeed", label, Render(OptGet(weather, "windspeed")))>>

displayWeather(data, label) ==
    LET weather == OptGet(data, "current_weather") IN
    IF Truthy(weather)
    THEN <<Log("temperature", label, Render(OptGet(weather, "temperature"))),
           Log("windspeed", label, Render(OptGet(weather, "windspeed")))>>
    ELSE <<Log("weatherUnavailable", label, "")>>

\* What a display call did: the lines it printed and, when it threw, the error.
Printed(lines) == [lines |-> lines, threw |-> FALSE, error |-> NoErr]
Threw(lines, error) == [lines |-> lines, threw |-> TRUE, error |-> error]

NotAFunction == Err("TypeError", "articles.forEach is not a function", 0, "")
NullTitle == Err("TypeError", "Cannot read properties of null", 0, "")

\* articles.forEach((article, index) => console.log(`${index + 1}. ${article.title}`))
\* from element i on; `done` are the lines printed so far.
RECURSIVE ForEachHeadline(_, _, _)
ForEachHeadline(a, i, done) ==
    IF i > Len(a) THEN Printed(done)
    ELSE IF a[i].t \in {"null", "undefined"} THEN Threw(done, NullTitle)
    ELSE ForEachHeadline(a, i + 1,
           Append(done,
                  Log("headline", "",
                      ToString(i) \o ". " \o Render(OptGet(a[i], "title")))))

\* articles.length > 0
LengthPositive(articles) ==
    CASE articles.t = "arr" -> Len(articles.a) > 0
      [] articles.t = "str" -> Len(articles.v) > 0
      [] OTHER -> Truthy(OptGet(articles, "length"))
                    /\ OptGet(articles, "length").t = "num"

\* Mutant: nothing is printed for an empty list.
displayNewsSilentWhenEmpty(articles, label) ==
    IF LengthPositive(articles)
    THEN IF articles.t = "arr"
         THEN ForEachHeadline(articles.a, 1, <<Log("newsHeadlines", label, "")>>)
         ELSE Threw(<<Log("newsHeadlines", label, "")>>, NotAFunction)
    ELSE Printed(<<>>)

displayNews(articles, label) ==
    IF LengthPositive(articles)
    THEN IF articles.t = "arr"
         THEN ForEachHeadline(articles.a, 1, <<Log("newsHeadlines", label, "")>>)
         ELSE Threw(<<Log("newsHeadlines", label, "")>>, NotAFunction)
    ELSE Printed(<<Log("newsUnavailable", label, "")>>)

\* const articles = newsData?.articles ?? [];
ArticlesOf(newsData) == Coalesce(OptGet(newsData, "articles"), JArr(<<>>))

(***************************************************************************)
(* The orchestrators' fetch slots.                                         *)
(***************************************************************************)
Programs == {"callback", "promise", "async"}
Strands == {"callback", "promise", "seq", "all", "race", "async"}

Slots ==
    {"cb1", "cb2", "cb3", "seq1", "seq2", "all1", "all2", "race1", "race2",
     "aw1", "aw2", "aw3"}

\* Which API a slot asks: getWeather* or getNews*.
ApiOf(slot) ==
    IF slot \in {"cb2", "seq2", "all2", "race2", "aw2"} THEN "news" ELSE "weather"

NoOutcome == Failure(NoErr)
Idle == [st |-> "idle", res |-> NoOutcome]
Pending == [st |-> "pending", res |-> NoOutcome]
Settled(o) == [st |-> "settled", res |-> o]

\* What the upstream APIs can answer: the fetcher's outcome for a response
\* body, for an error status, and for a transport fault.
WeatherOutcomes ==
    {JsonParse("{\"current_weather\":{\"temperature\":22,\"windspeed\":8.3}}"),
     JsonParse("{}"),
     Failure(HttpStatusError(500, "down")),
     Failure(NetworkError)}

NewsOutcomes ==
    {JsonParse("{\"articles\":[{\"title\":\"X\"},{\"title\":\"Y\"}]}"),
     JsonParse("{\"articles\":[]}"),
     JsonParse("{\"articles\":[{\"title\":\"X\"},null]}"),
     Failure(HttpStatusError(400, "apiKeyInvalid")),
     JsonParse("<html>"),
     JsonParse("[{\"title\":\"X\"},{\"title\":\"Y\"}]")}

\* What a handler did: lines printed, fetches issued, and whether it threw.
Eff(lines, issue) ==
    [lines |-> lines, issue |-> issue, threw |-> FALSE, error |-> NoErr,
     calls |-> 1]
EffThrew(lines, error) ==
    [lines |-> lines, issue |-> {}, threw |-> TRUE, error |-> error,
     calls |-> 1]

\* The state after a handler ran for `slot` on strand `strand`.
AfterSettle(slot, o, issue) ==
    [s \in Slots |->
       IF s = slot THEN Settled(o)
       ELSE IF s \in issue THEN Pending
       ELSE fetch[s]]

(***************************************************************************)
(* The request each model function sends: config/apiConfig, models/*.      *)
(***************************************************************************)
\* const NEWS_API_KEY: string = "..."; NEWS_API.apiKey
NewsApiKey == "2250199a202046ad9e055d2a81e84e6b"

\* A URL: the endpoint and the query parameters set on it.
Url(base, query) == [base |-> base, query |-> query]

\* buildWeatherUrl(latitude, longitude)
buildWeatherUrl(latitude, longitude) ==
    Url("https://api.open-meteo.com/v1/forecast",
        {<<"latitude", latitude>>, <<"longitude", longitude>>,
         <<"current_weather", "true">>})

\* Mutant: the key travels in the query string, as NewsAPI also accepts it.
buildNewsUrlWithKey(country, pageSize) ==
    Url("https://newsapi.org/v2/top-headlines",
        {<<"country", country>>, <<"pageSize", pageSize>>,
         <<"apiKey", NewsApiKey>>})

\* buildNewsUrl(country, pageSize)
buildNewsUrl(country, pageSize) ==
    Url("https://newsapi.org/v2/top-headlines",
        {<<"country", country>>, <<"pageSize", pageSize>>})

\* getNewsHeaders(): { "X-Api-Key": NEWS_API.apiKey }
getNewsHeaders ==
    [h \in HeaderNames |-> IF h = "X-Api-Key" THEN NewsApiKey ELSE Absent]

\* getNewsCallback("us", 5, cb) / getNewsPromise("us", 5), as every controller
\* calls them: the URL and the options handed to the fetcher.
getNews ==
    [url |-> buildNewsUrl("us", "5"),
     headers |-> RequestHeaders(getNewsHeaders)]

\* getWeatherCallback / getWeatherPromise with DEFAULT_LOCATION: the URL
\* alone, no options.
getWeather ==
    [url |-> buildWeatherUrl("-25.7479", "28.2293"),
     headers |-> RequestHeaders(NoHeaders)]

\* The entry point (a process of its own) a slot belongs to.
ProgramOf(slot) ==
    CASE slot \in {"cb1", "cb2", "cb3"} -> "callback"
      [] slot \in {"aw1", "aw2", "aw3"} -> "async"
      [] OTHER -> "promise"

\* The request the fetch of `slot` puts on the wire.
RequestOf(slot) ==
    LET call == IF ApiOf(slot) = "news" THEN getNews ELSE getWeather IN
    [slot |-> slot, api |-> ApiOf(slot), url |-> call.url,
     headers |-> call.headers]

\* The order in which one handler issues the fetches it issues.
SlotOrder ==
    <<"cb1", "cb2", "cb3", "seq1", "seq2", "all1", "all2", "race1", "race2",
      "aw1", "aw2", "aw3">>

RECURSIVE Sent(_, _)
\* The requests of the fetches `issue`, from position i of SlotOrder on.
Sent(issue, i) ==
    IF i > Len(SlotOrder) THEN <<>>
    ELSE (IF SlotOrder[i] \in issue THEN <<RequestOf(SlotOrder[i])>> ELSE <<>>)
           \o Sent(issue, i + 1)

(***************************************************************************)
(* Promise combinators of the runtime, as the controllers use them.        *)
(***************************************************************************)
\* Mutant: the combinator settles only when both inputs have settled (as
\* Promise.allSettled followed by a check would).
PromiseAllWaitsForBoth(state, other, o) ==
    IF state # "pending" THEN state
    ELSE IF other.st # "settled" THEN "pending"
    ELSE IF o.ok /\ other.res.ok THEN "fulfilled"
    ELSE "rejected"

\* Promise.all over two promises: the state after one of them settles with
\* o while the other one is in state `other`.
PromiseAll(state, other, o) ==
    IF state # "pending" THEN state
    ELSE IF ~o.ok THEN "rejected"
    ELSE IF other.st = "settled" THEN "fulfilled"
    ELSE "pending"

\* Promise.race: the first settlement decides, later ones change nothing.
PromiseRace(state, o) ==
    IF state # "pending" THEN state
    ELSE IF o.ok THEN "fulfilled" ELSE "rejected"

\* The promises a combinator is given.  Promise.all and Promise.race attach
\* a reaction to every element of their array, so the rejection of an element
\* is observed by the combinator also after the combinator has settled.
CombinatorInputs(block) ==
    CASE block = "all" -> {"all1", "all2"}
      [] block = "race" -> {"race1", "race2"}
      [] OTHER -> {"aw1", "aw2"}

\* What a block did when the promise of `slot` settled with o: the lines of
\* its reactions; a rejection that no reaction observes is left to the
\* process.
BlockEff(block, slot, o, lines) ==
    IF ~o.ok /\ slot \notin CombinatorInputs(block)
    THEN EffThrew(lines, o.val)
    ELSE Eff(lines, {})

\* Mutant: the values in the order of settlement, the fetch settling now last.
AllValuesInSettlementOrder(first, second, slot, o) ==
    <<fetch[IF slot = first THEN second ELSE first].res.val, o.val>>

\* The value of a fulfilled Promise.all, in the order of the input array.
AllValues(first, second, slot, o) ==
    <<IF slot = first THEN o.val ELSE fetch[first].res.val,
      IF slot = second THEN o.val ELSE fetch[second].res.val>>

\* promise.then(ok).catch(context): the lines of a then-handler followed by
\* those of the catch handler when the then-handler threw.
ThenCatch(d, context) ==
    IF d.threw THEN d.lines \o displayError(context, d.error) ELSE d.lines

(***************************************************************************)
(* callbackController: weather -> news -> weather, nested callbacks.       *)
(***************************************************************************)
\* Mutant: the error branch lacks its `return`, so the callback falls through
\* to the rendering and to the nested news fetch.
WeatherCallbackNoReturn(o) ==
    IF ~o.ok
    THEN Eff(displayError("Weather Fetch", o.val)
               \o displayWeather(JUndefined, "Callback"), {"cb2"})
    ELSE Eff(displayWeather(o.val, "Callback"), {"cb2"})

\* Mutant: the news fetch is issued before the weather is rendered, and the
\* rendering is left for later.
WeatherCallbackFetchesFirst(o) ==
    IF ~o.ok
    THEN Eff(displayError("Weather Fetch", o.val), {})
    ELSE Eff(<<>>, {"cb2"})

\* (err, weatherData) => { ... }
WeatherCallback(o) ==
    IF ~o.ok
    THEN Eff(displayError("Weather Fetch", o.val), {})
    ELSE Eff(displayWeather(o.val, "Callback"), {"cb2"})

\* Mutant: the payload itself is handed to displayNews as the article list.
NewsCallbackWholePayload(o) ==
    IF ~o.ok
    THEN Eff(displayError("News Fetch", o.val), {})
    ELSE LET d == displayNews(o.val, "Callback") IN
         IF d.threw THEN EffThrew(d.lines, d.error) ELSE Eff(d.lines, {"cb3"})

\* (err2, newsData) => { ... }
NewsCallback(o) ==
    IF ~o.ok
    THEN Eff(displayError("News Fetch", o.val), {})
    ELSE LET d == displayNews(ArticlesOf(o.val), "Callback") IN
         IF d.threw THEN EffThrew(d.lines, d.error) ELSE Eff(d.lines, {"cb3"})

\* Mutant: a failed second weather fetch is tried again.
SecondWeatherCallbackRetries(o) ==
    IF ~o.ok
    THEN Eff(displayError("Second Weather Fetch", o.val), {"cb3"})
    ELSE Eff(displayWeather(o.val, "Callback - Second Fetch")
               \o displayFooter("Callback"), {})

\* (err3, weather2) => { ... }
SecondWeatherCallback(o) ==
    IF ~o.ok
    THEN Eff(displayError("Second Weather Fetch", o.val), {})
    ELSE Eff(displayWeather(o.val, "Callback - Second Fetch")
               \o displayFooter("Callback"), {})

\* The callback passed to the fetch of `slot`.
CallbackOf(slot, o) ==
    CASE slot = "cb1" -> WeatherCallback(o)
      [] slot = "cb2" -> NewsCallback(o)
      [] OTHER -> SecondWeatherCallback(o)

\* Mutant: cb(null, parsedData) outside the try block, so what the callback
\* throws leaves the 'end' listener.
httpGetJsonNoTry(slot, o) == CallbackOf(slot, o)

\* httpGetJson handing outcome o to the callback cb of `slot`.  An error goes
\* straight to cb(err).  A payload goes to cb(null, parsedData) inside the try
\* block of the 'end' listener, whose catch hands whatever cb threw to cb
\* again.
httpGetJson(slot, o) ==
    LET r1 == CallbackOf(slot, o) IN
    IF o.ok /\ r1.threw
    THEN LET r2 == CallbackOf(slot, Failure(r1.error)) IN
         [lines |-> r1.lines \o r2.lines, issue |-> r1.issue \cup r2.issue,
          threw |-> r2.threw, error |-> r2.error, calls |-> 2]
    ELSE r1

\* A fetch of `slot` settles with o and its handler did r on `strand`.  What
\* the handler threw, with nothing left to catch it, reaches the process as
\* an uncaught exception or an unhandled rejection.
Settle(slot, o, strand, r) ==
    /\ fetch[slot].st = "pending"
    /\ o \in scenario[ApiOf(slot)]
    /\ fetch' = AfterSettle(slot, o, r.issue)
    /\ out' = [out EXCEPT ![strand] = @ \o r.lines]
    /\ escaped' = IF r.threw
                  THEN escaped \cup {[slot |-> slot, error |-> r.error]}
                  ELSE escaped
    /\ wire' = [wire EXCEPT ![ProgramOf(slot)] = @ \o Sent(r.issue, 1)]
    /\ UNCHANGED <<entry, scenario, started>>
    /\ UNCHANGED fetchVars

\* The module's top-level code: displayHeader(VERSION); getWeatherCallback(...)
StartCallback ==
    /\ "callback" \in entry \ started
    /\ started' = started \cup {"callback"}
    /\ out' = [out EXCEPT !["callback"] = @ \o displayHeader("Callback")]
    /\ fetch' = [fetch EXCEPT !["cb1"] = Pending]
    /\ wire' = [wire EXCEPT !["callback"] = @ \o Sent({"cb1"}, 1)]
    /\ UNCHANGED <<entry, scenario, allState, raceState, firstSettled,
                   cbInvocations, escaped>>
    /\ UNCHANGED fetchVars

CallbackWeatherDone(o) ==
    LET r == httpGetJson("cb1", o) IN
    /\ Settle("cb1", o, "callback", r)
    /\ cbInvocations' = [cbInvocations EXCEPT !["cb1"] = r.calls]
    /\ UNCHANGED <<allState, raceState, firstSettled>>

CallbackNewsDone(o) ==
    LET r == httpGetJson("cb2", o) IN
    /\ Settle("cb2", o, "callback", r)
    /\ cbInvocations' = [cbInvocations EXCEPT !["cb2"] = r.calls]
    /\ UNCHANGED <<allState, raceState, firstSettled>>

CallbackSecondWeatherDone(o) ==
    LET r == httpGetJson("cb3", o) IN
    /\ Settle("cb3", o, "callback", r)
    /\ cbInvocations' = [cbInvocations EXCEPT !["cb3"] = r.calls]
    /\ UNCHANGED <<allState, raceState, firstSettled>>

(***************************************************************************)
(* promiseController: a sequential chain, a Promise.all and a Promise.race *)
(* started by the same top-level code.                                     *)
(***************************************************************************)
StartPromise ==
    /\ "promise" \in entry \ started
    /\ started' = started \cup {"promise"}
    /\ out' = [out EXCEPT !["promise"] = @ \o displayHeader("Promise")]
    /\ fetch' = [s \in Slots |->
                   IF s \in {"seq1", "all1", "all2", "race1", "race2"}
                   THEN Pending ELSE fetch[s]]
    /\ wire' = [wire EXCEPT !["promise"] =
                   @ \o Sent({"seq1", "all1", "all2", "race1", "race2"}, 1)]
    /\ allState' = [allState EXCEPT !["all"] = "pending"]
    /\ raceState' = "pending"
    /\ UNCHANGED <<entry, scenario, firstSettled, cbInvocations, escaped>>
    /\ UNCHANGED fetchVars

\* Mutant: the .catch sits before the news step, so the chain goes on to the
\* news fetch after a weather failure.
SeqWeatherThenCatchFirst(o) ==
    IF ~o.ok
    THEN Eff(displayError("Sequential Chain", o.val), {"seq2"})
    ELSE Eff(displayWeather(o.val, "Promise - Sequential"), {"seq2"})

\* getWeatherPromise().then(weatherData => ...) ... .catch(...)
SeqWeatherThen(o) ==
    IF ~o.ok
    THEN Eff(displayError("Sequential Chain", o.val), {})
    ELSE Eff(displayWeather(o.val, "Promise - Sequential"), {"seq2"})

\* .then(newsData => ...).then(() => console.log(...)).catch(...)
SeqNewsThen(o) ==
    IF ~o.ok
    THEN Eff(displayError("Sequential Chain", o.val), {})
    ELSE LET d == displayNews(ArticlesOf(o.val), "Promise - Sequential") IN
         IF d.threw
         THEN Eff(ThenCatch(d, "Sequential Chain"), {})
         ELSE Eff(d.lines \o <<Log("chainComplete", "Promise - Sequential", "")>>,
                  {})

PromiseSeqWeatherDone(o) ==
    /\ Settle("seq1", o, "seq", SeqWeatherThen(o))
    /\ UNCHANGED <<allState, raceState, firstSettled, cbInvocations>>

PromiseSeqNewsDone(o) ==
    /\ Settle("seq2", o, "seq", SeqNewsThen(o))
    /\ UNCHANGED <<allState, raceState, firstSettled, cbInvocations>>

\* .then(([weatherData, newsData]) => { ... }) of the Promise.all block
AllThen(values) ==
    LET d == displayNews(ArticlesOf(values[2]), "Promise.all") IN
    [d EXCEPT !.lines = <<Log("allResults", "Promise.all", "")>>
                          \o displayWeather(values[1], "Promise.all") \o @]

\* Mutant: the chain has no .catch, so a rejection renders nothing.
AllReactionNoCatch(slot, o) ==
    LET next == PromiseAll(allState["all"],
                           fetch[IF slot = "all1" THEN "all2" ELSE "all1"], o)
    IN  IF allState["all"] # "pending" \/ next # "fulfilled" THEN <<>>
        ELSE ThenCatch(AllThen(AllValues("all1", "all2", slot, o)), "Promise.all")

\* Mutant: each fetch has its own .then, so a weather payload is rendered
\* when it arrives.
AllReactionRendersOnArrival(slot, o) ==
    LET next == PromiseAll(allState["all"],
                           fetch[IF slot = "all1" THEN "all2" ELSE "all1"], o)
    IN  IF allState["all"] # "pending" THEN <<>>
        ELSE IF next = "pending"
        THEN (IF slot = "all1" THEN displayWeather(o.val, "Promise.all") ELSE <<>>)
        ELSE IF next = "rejected" THEN displayError("Promise.all", o.val)
        ELSE ThenCatch(AllThen(AllValues("all1", "all2", slot, o)), "Promise.all")

\* Mutant: every rejection of an input is rendered, the later one too.
AllReactionEveryRejection(slot, o) ==
    LET next == PromiseAll(allState["all"],
                           fetch[IF slot = "all1" THEN "all2" ELSE "all1"], o)
    IN  IF ~o.ok THEN displayError("Promise.all", o.val)
        ELSE IF allState["all"] # "pending" \/ next = "pending" THEN <<>>
        ELSE ThenCatch(AllThen(AllValues("all1", "all2", slot, o)), "Promise.all")

\* Mutant: the blocks share an `aborted` flag that the chain's .catch sets,
\* and the Promise.all block prints nothing once it is set.
AllReactionSilentAfterChainFailure(slot, o) ==
    LET next == PromiseAll(allState["all"],
                           fetch[IF slot = "all1" THEN "all2" ELSE "all1"], o)
        aborted == \E s \in {"seq1", "seq2"} :
                      fetch[s].st = "settled" /\ ~fetch[s].res.ok
    IN  IF aborted \/ allState["all"] # "pending" \/ next = "pending" THEN <<>>
        ELSE IF next = "rejected" THEN displayError("Promise.all", o.val)
        ELSE ThenCatch(AllThen(AllValues("all1", "all2", slot, o)), "Promise.all")

\* What the Promise.all block prints when `slot` settles with o.
AllReaction(slot, o) ==
    LET next == PromiseAll(allState["all"],
                           fetch[IF slot = "all1" THEN "all2" ELSE "all1"], o)
    IN  IF allState["all"] # "pending" \/ next = "pending" THEN <<>>
        ELSE IF next = "rejected" THEN displayError("Promise.all", o.val)
        ELSE ThenCatch(AllThen(AllValues("all1", "all2", slot, o)), "Promise.all")

PromiseAllDone(slot, o) ==
    /\ slot \in {"all1", "all2"}
    /\ Settle(slot, o, "all", BlockEff("all", slot, o, AllReaction(slot, o)))
    /\ allState' = [allState EXCEPT !["all"] =
                      PromiseAll(@, fetch[IF slot = "all1" THEN "all2" ELSE "all1"], o)]
    /\ firstSettled' = [firstSettled EXCEPT !["all"] =
                          IF @ = "none" THEN slot ELSE @]
    /\ UNCHANGED <<raceState, cbInvocations>>

\* Mutant: the articles field is looked at before current_weather.
RaceThenArticlesFirst(firstResult) ==
    LET head == <<Log("raceWinner", "Promise.race", "")>> IN
    IF Truthy(OptGet(firstResult, "articles"))
    THEN LET d == displayNews(OptGet(firstResult, "articles"), "Promise.race")
         IN  [d EXCEPT !.lines = head
                          \o <<Log("newsFirst", "Promise.race", "")>> \o @]
    ELSE IF Truthy(OptGet(firstResult, "current_weather"))
    THEN Printed(head \o <<Log("weatherFirst", "Promise.race", "")>>
                   \o displayWeather(firstResult, "Promise.race"))
    ELSE Printed(head)

\* .then((firstResult) => { ... }) of the Promise.race block
RaceThen(firstResult) ==
    LET head == <<Log("raceWinner", "Promise.race", "")>> IN
    IF Truthy(OptGet(firstResult, "current_weather"))
    THEN Printed(head \o <<Log("weatherFirst", "Promise.race", "")>>
                   \o displayWeather(firstResult, "Promise.race"))
    ELSE IF Truthy(OptGet(firstResult, "articles"))
    THEN LET d == displayNews(OptGet(firstResult, "articles"), "Promise.race")
         IN  [d EXCEPT !.lines = head
                          \o <<Log("newsFirst", "Promise.race", "")>> \o @]
    ELSE Printed(head)

\* Mutant: the handlers hang on each fetch instead of on the race, so every
\* settlement is rendered.
RaceReactionEverySettlement(o) ==
    IF ~o.ok THEN displayError("Promise.race", o.val)
    ELSE ThenCatch(RaceThen(o.val), "Promise.race")

\* Mutant: a race on the first fulfilment (Promise.any) instead of on the
\* first settlement: a rejection is not rendered.
RaceReactionFirstFulfilled(o) ==
    IF raceState # "pending" \/ ~o.ok THEN <<>>
    ELSE ThenCatch(RaceThen(o.val), "Promise.race")

\* Mutant: a rejection is rendered whenever it arrives, the loser's too.
RaceReactionLoserErrors(o) ==
    IF ~o.ok THEN displayError("Promise.race", o.val)
    ELSE IF raceState # "pending" THEN <<>>
    ELSE ThenCatch(RaceThen(o.val), "Promise.race")

\* What the Promise.race block prints when a fetch settles with o.
RaceReaction(o) ==
    IF raceState # "pending" THEN <<>>
    ELSE IF ~o.ok THEN displayError("Promise.race", o.val)
    ELSE ThenCatch(RaceThen(o.val), "Promise.race")

PromiseRaceDone(slot, o) ==
    /\ slot \in {"race1", "race2"}
    /\ Settle(slot, o, "race", BlockEff("race", slot, o, RaceReaction(o)))
    /\ raceState' = PromiseRace(raceState, o)
    /\ firstSettled' = [firstSettled EXCEPT !["race"] =
                          IF @ = "none" THEN slot ELSE @]
    /\ UNCHANGED <<allState, cbInvocations>>

(***************************************************************************)
(* asyncController: run().                                                 *)
(***************************************************************************)
\* run() up to its first await: displayHeader; Promise.all([...]).
StartAsync ==
    /\ "async" \in entry \ started
    /\ started' = started \cup {"async"}
    /\ out' = [out EXCEPT !["async"] = @ \o displayHeader("Async/Await")]
    /\ fetch' = [s \in Slots |->
                   IF s \in {"aw1", "aw2"} THEN Pending ELSE fetch[s]]
    /\ wire' = [wire EXCEPT !["async"] = @ \o Sent({"aw1", "aw2"}, 1)]
    /\ allState' = [allState EXCEPT !["async"] = "pending"]
    /\ UNCHANGED <<entry, scenario, raceState, firstSettled, cbInvocations,
                   escaped>>
    /\ UNCHANGED fetchVars

\* Mutant: the footer sits at the end of the try block instead of in a
\* finally block, so a failure of the parallel fetch ends run() without it.
RunAfterAllNoFinally(slot, o) ==
    LET next == PromiseAll(allState["async"],
                           fetch[IF slot = "aw1" THEN "aw2" ELSE "aw1"], o)
    IN  IF allState["async"] # "pending" \/ next = "pending" THEN Eff(<<>>, {})
        ELSE IF next = "rejected"
        THEN Eff(displayError("Async/Await Run", o.val), {})
        ELSE LET values == AllValues("aw1", "aw2", slot, o)
                 d == displayNews(ArticlesOf(values[2]), "Async/Await")
                 shown == displayWeather(values[1], "Async/Await") \o d.lines
             IN  IF d.threw
                 THEN Eff(shown \o displayError("Async/Await Run", d.error), {})
                 ELSE Eff(shown, {"aw3"})

\* Mutant: the parallel await has a try/catch of its own, so after its
\* failure run() goes on to the additional fetch.
RunAfterAllGoesOn(slot, o) ==
    LET next == PromiseAll(allState["async"],
                           fetch[IF slot = "aw1" THEN "aw2" ELSE "aw1"], o)
    IN  IF allState["async"] # "pending" \/ next = "pending" THEN Eff(<<>>, {})
        ELSE IF next = "rejected"
        THEN Eff(displayError("Async/Await Run", o.val), {"aw3"})
        ELSE LET values == AllValues("aw1", "aw2", slot, o)
                 d == displayNews(ArticlesOf(values[2]), "Async/Await")
                 shown == displayWeather(values[1], "Async/Await") \o d.lines
             IN  IF d.threw
                 THEN Eff(shown \o displayError("Async/Await Run", d.error)
                            \o displayFooter("Async/Await"), {})
                 ELSE Eff(shown, {"aw3"})

\* run() resumed after `await Promise.all([...])`, up to the next await or
\* through catch and finally.
RunAfterAll(slot, o) ==
    LET next == PromiseAll(allState["async"],
                           fetch[IF slot = "aw1" THEN "aw2" ELSE "aw1"], o)
    IN  IF allState["async"] # "pending" \/ next = "pending" THEN Eff(<<>>, {})
        ELSE IF next = "rejected"
        THEN Eff(displayError("Async/Await Run", o.val)
                   \o displayFooter("Async/Await"), {})
        ELSE LET values == AllValues("aw1", "aw2", slot, o)
                 d == displayNews(ArticlesOf(values[2]), "Async/Await")
                 shown == displayWeather(values[1], "Async/Await") \o d.lines
             IN  IF d.threw
                 THEN Eff(shown \o displayError("Async/Await Run", d.error)
                            \o displayFooter("Async/Await"), {})
                 ELSE Eff(shown, {"aw3"})

\* Mutant: no nested try/catch, so the failure reaches the outer catch.
RunAfterAdditionalNoInnerCatch(o) ==
    IF ~o.ok
    THEN Eff(displayError("Async/Await Run", o.val)
               \o displayFooter("Async/Await"), {})
    ELSE Eff(displayWeather(o.val, "Async/Await - Additional Fetch")
               \o displayFooter("Async/Await"), {})

\* run() resumed after `await getWeatherPromise()` in the nested try.
RunAfterAdditional(o) ==
    IF ~o.ok
    THEN Eff(displayError("Additional Weather Fetch", o.val)
               \o displayFooter("Async/Await"), {})
    ELSE Eff(displayWeather(o.val, "Async/Await - Additional Fetch")
               \o displayFooter("Async/Await"), {})

AsyncAllDone(slot, o) ==
    /\ slot \in {"aw1", "aw2"}
    /\ Settle(slot, o, "async", RunAfterAll(slot, o))
    /\ allState' = [allState EXCEPT !["async"] =
                      PromiseAll(@, fetch[IF slot = "aw1" THEN "aw2" ELSE "aw1"], o)]
    /\ firstSettled' = [firstSettled EXCEPT !["async"] =
                          IF @ = "none" THEN slot ELSE @]
    /\ UNCHANGED <<raceState, cbInvocations>>

AsyncAdditionalDone(o) ==
    /\ Settle("aw3", o, "async", RunAfterAdditional(o))
    /\ UNCHANGED <<allState, raceState, firstSettled, cbInvocations>>

(***************************************************************************)
(* Specifications.                                                         *)
(***************************************************************************)
AllOutcomes == WeatherOutcomes \cup NewsOutcomes

InitOrchestrators ==
    /\ started = {}
    /\ fetch = [s \in Slots |-> Idle]
    /\ out = [s \in Strands |-> <<>>]
    /\ allState = [b \in {"all", "async"} |-> "none"]
    /\ raceState = "none"
    /\ firstSettled = [b \in {"all", "race", "async"} |-> "none"]
    /\ cbInvocations = [s \in {"cb1", "cb2", "cb3"} |-> 0]
    /\ escaped = {}
    /\ wire = [p \in Programs |-> <<>>]

\* One run of one entry point; the APIs may answer anything.
Init ==
    /\ InitFetcher
    /\ InitOrchestrators
    /\ entry \in {{p} : p \in Programs}
    /\ scenario = [weather |-> WeatherOutcomes, news |-> NewsOutcomes]

NextOrchestrators ==
    \/ StartCallback
    \/ StartPromise
    \/ StartAsync
    \/ \E o \in AllOutcomes : CallbackWeatherDone(o)
    \/ \E o \in AllOutcomes : CallbackNewsDone(o)
    \/ \E o \in AllOutcomes : CallbackSecondWeatherDone(o)
    \/ \E o \in AllOutcomes : PromiseSeqWeatherDone(o)
    \/ \E o \in AllOutcomes : PromiseSeqNewsDone(o)
    \/ \E s \in Slots, o \in AllOutcomes : PromiseAllDone(s, o)
    \/ \E s \in Slots, o \in AllOutcomes : PromiseRaceDone(s, o)
    \/ \E s \in Slots, o \in AllOutcomes : AsyncAllDone(s, o)
    \/ \E o \in AllOutcomes : AsyncAdditionalDone(o)

Next == NextOrchestrators

Spec == Init /\ [][Next]_vars

\* The same runs when every started entry point gets to run and every fetch
\* it issued settles.
SpecLive == Init /\ [][Next]_vars /\ WF_vars(Next)

\* The three entry points side by side, the weather API and the news API
\* each answering every request of the run the same way.
InitCompare ==
    /\ InitFetcher
    /\ InitOrchestrators
    /\ entry = Programs
    /\ scenario \in {[weather |-> {w}, news |-> {n}] :
                       w \in WeatherOutcomes, n \in NewsOutcomes}

SpecCompare == InitCompare /\ [][Next]_vars

\* One request of the fetcher, event by event.
InitFetch ==
    /\ InitFetcher
    /\ InitOrchestrators
    /\ entry = {}
    /\ scenario = [weather |-> {}, news |-> {}]

NextFetch ==
    \/ \E v \in Variants, urlOk \in BOOLEAN, throws \in BOOLEAN :
         /\ throws => IsCallbackVariant(v)
         /\ CallFetcher(v, urlOk, throws, NoHeaders)
         /\ UNCHANGED orchVars
    \/ \E statusCode \in Statuses, body \in Bodies :
         /\ OnResponse(statusCode, body)
         /\ UNCHANGED orchVars
    \/ OnData /\ UNCHANGED orchVars
    \/ OnEnd /\ UNCHANGED orchVars
    \/ OnError /\ UNCHANGED orchVars
    \/ OnAborted /\ UNCHANGED orchVars

SpecFetch == InitFetch /\ [][NextFetch]_vars

\* The request a call of the fetcher sends, for every header mapping.
NextRequest ==
    \E v \in Variants, urlOk \in BOOLEAN, throws \in BOOLEAN,
       headers \in CallerHeaders :
         /\ CallFetcher(v, urlOk, throws, headers)
         /\ UNCHANGED orchVars

SpecRequest == InitFetch /\ [][NextRequest]_vars

\* promiseController when either API may answer a payload of any shape: the
\* weather shape, the news shape, both fields at once, a null
\* current_weather beside articles, neither field, or no payload at all.
BothValue ==
    JObj([current_weather |-> WeatherValue.f.current_weather,
          articles |-> JArr(<<ArticleX>>)])

AnyShape ==
    {Success(WeatherValue),
     Success(JObj([articles |-> JArr(<<ArticleX, ArticleY>>)])),
     Success(BothValue),
     Success(JObj([current_weather |-> JNull, articles |-> JArr(<<ArticleX>>)])),
     Success(JObj(<<>>)),
     Failure(NetworkError)}

InitShapes ==
    /\ InitFetcher
    /\ InitOrchestrators
    /\ entry = {"promise"}
    /\ scenario = [weather |-> AnyShape, news |-> AnyShape]

NextShapes ==
    \/ StartPromise
    \/ \E o \in AnyShape : PromiseSeqWeatherDone(o)
    \/ \E o \in AnyShape : PromiseSeqNewsDone(o)
    \/ \E s \in Slots, o \in AnyShape : PromiseAllDone(s, o)
    \/ \E s \in Slots, o \in AnyShape : PromiseRaceDone(s, o)

SpecShapes == InitShapes /\ [][NextShapes]_vars

(***************************************************************************)
(* Vocabulary of the properties.                                           *)
(***************************************************************************)
WeatherKinds == {"temperature", "windspeed", "weatherUnavailable"}
NewsKinds == {"newsHeadlines", "headline", "newsUnavailable"}

IsSettled(slot) == fetch[slot].st = "settled"
Succeeded(slot) == IsSettled(slot) /\ fetch[slot].res.ok
Failed(slot) == IsSettled(slot) /\ ~fetch[slot].res.ok

\* How many lines of a console are of one of the kinds.
CountKinds(lines, kinds) ==
    Cardinality({i \in 1..Len(lines) : lines[i].kind \in kinds})

\* The lines of a console that are of one of the kinds, in order.
OfKinds(lines, kinds) ==
    LET Keep(l) == l.kind \in kinds IN SelectSeq(lines, Keep)

\* lines starts with prefix.
StartsWith(lines, prefix) ==
    /\ Len(prefix) <= Len(lines)
    /\ SubSeq(lines, 1, Len(prefix)) = prefix

\* The stages of the two sequential orchestrations: the slot of the stage,
\* the console it renders to, the context of its error line, the later slots.
SequentialStages ==
    {[slot |-> "cb1", strand |-> "callback", context |-> "Weather Fetch",
      later |-> {"cb2", "cb3"}],
     [slot |-> "cb2", strand |-> "callback", context |-> "News Fetch",
      later |-> {"cb3"}],
     [slot |-> "cb3", strand |-> "callback", context |-> "Second Weather Fetch",
      later |-> {}],
     [slot |-> "seq1", strand |-> "seq", context |-> "Sequential Chain",
      later |-> {"seq2"}],
     [slot |-> "seq2", strand |-> "seq", context |-> "Sequential Chain",
      later |-> {}]}

(***************************************************************************)
(* C1.  In the sequential orchestrations (callbackController's nested      *)
(* callbacks, promiseController's .then chain), once the fetch of a stage  *)
(* has failed, exactly one error line is on the console, it is that        *)
(* stage's and carries the fetch's error, and no later stage's fetch has   *)
(* been issued.                                                            *)
(***************************************************************************)
C1_FailureAbortsLaterStages ==
    \A stage \in SequentialStages :
       Failed(stage.slot) =>
         /\ OfKinds(out[stage.strand], {"error"})
              = displayError(stage.context, fetch[stage.slot].res.val)
         /\ \A s \in stage.later : fetch[s].st = "idle"

\* Stage 1 of callbackController has failed.
C1_Witness == Failed("cb1") /\ CountKinds(out["callback"], {"error"}) = 1

(***************************************************************************)
(* C2.  When the supplementary weather fetch (asyncController's nested     *)
(* try, callbackController's third callback) fails, the step that handles  *)
(* the failure leaves every line rendered so far in place and adds exactly *)
(* one error line, the supplementary stage's, and no payload line (in      *)
(* asyncController the finally block's footer follows it).                 *)
(***************************************************************************)
SupplementaryStages ==
    {[slot |-> "aw3", strand |-> "async",
      context |-> "Additional Weather Fetch",
      after |-> displayFooter("Async/Await")],
     [slot |-> "cb3", strand |-> "callback",
      context |-> "Second Weather Fetch", after |-> <<>>]}

C2_SupplementaryFailureIsolated ==
    [][\A stage \in SupplementaryStages :
         (fetch[stage.slot].st = "pending" /\ Failed(stage.slot)') =>
            out'[stage.strand] =
               out[stage.strand]
                 \o displayError(stage.context, fetch'[stage.slot].res.val)
                 \o stage.after]_vars

\* The additional fetch of asyncController failed after weather and news
\* had been rendered.
C2_Witness ==
    /\ Succeeded("aw1") /\ Succeeded("aw2") /\ Failed("aw3")
    /\ CountKinds(out["async"], WeatherKinds) > 0
    /\ CountKinds(out["async"], NewsKinds) > 0
    /\ CountKinds(out["async"], {"error"}) = 1

(***************************************************************************)
(* C3.  Promise.race, both fetches fulfilled: exactly one winner is        *)
(* rendered, it is the payload of the fetch that settled first, and no     *)
(* line of the later fetch's payload is on the console, whichever of the   *)
(* two settled first.                                                      *)
(***************************************************************************)
RaceLoser == IF firstSettled["race"] = "race1" THEN "race2" ELSE "race1"

C3_RaceRendersFirstSettled ==
    (Succeeded("race1") /\ Succeeded("race2")) =>
       LET winner == fetch[firstSettled["race"]].res.val IN
       /\ CountKinds(out["race"], {"raceWinner"}) = 1
       /\ CountKinds(out["race"], {"weatherFirst", "newsFirst"}) <= 1
       /\ firstSettled["race"] = "race1" =>
            /\ OfKinds(out["race"], WeatherKinds)
                 = (IF Truthy(OptGet(winner, "current_weather"))
                    THEN displayWeather(winner, "Promise.race") ELSE <<>>)
            /\ CountKinds(out["race"], NewsKinds \cup {"newsFirst"}) = 0
       /\ firstSettled["race"] = "race2" =>
            /\ OfKinds(out["race"], NewsKinds)
                 = (IF Truthy(OptGet(winner, "articles"))
                    THEN displayNews(OptGet(winner, "articles"),
                                     "Promise.race").lines
                    ELSE <<>>)
            /\ CountKinds(out["race"], WeatherKinds \cup {"weatherFirst"}) = 0

\* The news fetch settled first and the weather fetch, with a full weather
\* payload, after it.
C3_Witness ==
    /\ Succeeded("race1") /\ Succeeded("race2")
    /\ firstSettled["race"] = "race2"
    /\ Truthy(OptGet(fetch["race1"].res.val, "current_weather"))
    /\ CountKinds(out["race"], {"headline"}) = 2

(***************************************************************************)
(* C4.  Promise.race, a failure counts as settlement: when the fetch that  *)
(* settled first failed, the console of the race holds that failure's      *)
(* error line and nothing else, also after the other fetch succeeded.      *)
(***************************************************************************)
C4_RaceSettlesOnFailure ==
    (firstSettled["race"] # "none" /\ Failed(firstSettled["race"])) =>
       out["race"]
         = displayError("Promise.race", fetch[firstSettled["race"]].res.val)

\* The first fetch failed and the other one succeeded after it.
C4_Witness ==
    /\ firstSettled["race"] # "none"
    /\ Failed(firstSettled["race"])
    /\ Succeeded(RaceLoser)

(***************************************************************************)
(* C5.  Promise.all, both fetches fulfilled: the weather payload of the    *)
(* first request is rendered first and the news payload of the second      *)
(* request after it, whichever of the two settled first (promiseController *)
(* and asyncController).                                                   *)
(***************************************************************************)
AllBlocks ==
    {[block |-> "all", first |-> "all1", second |-> "all2", strand |-> "all",
      label |-> "Promise.all",
      head |-> <<Log("allResults", "Promise.all", "")>>],
     [block |-> "async", first |-> "aw1", second |-> "aw2", strand |-> "async",
      label |-> "Async/Await", head |-> displayHeader("Async/Await")]}

C5_AllRendersInRequestOrder ==
    \A b \in AllBlocks :
       (Succeeded(b.first) /\ Succeeded(b.second)) =>
          StartsWith(out[b.strand],
                     b.head
                       \o displayWeather(fetch[b.first].res.val, b.label)
                       \o displayNews(ArticlesOf(fetch[b.second].res.val),
                                      b.label).lines)

\* The news fetch of promiseController's Promise.all settled before the
\* weather fetch, and both succeeded.
C5_Witness ==
    /\ Succeeded("all1") /\ Succeeded("all2")
    /\ firstSettled["all"] = "all2"
    /\ CountKinds(out["all"], {"headline"}) = 2

(***************************************************************************)
(* C6.  Promise.all, one fetch fulfilled and the other failed, in either   *)
(* role and either order: one error line, that of the failure, is          *)
(* rendered, and neither payload is.                                       *)
(***************************************************************************)
C6_AllFailsAsAWhole ==
    \A b \in AllBlocks :
       \A bad \in {b.first, b.second} :
          LET good == IF bad = b.first THEN b.second ELSE b.first IN
          (Failed(bad) /\ Succeeded(good)) =>
             /\ OfKinds(out[b.strand], {"error"})
                  = displayError(IF b.block = "all" THEN "Promise.all"
                                 ELSE "Async/Await Run",
                                 fetch[bad].res.val)
             /\ CountKinds(out[b.strand], WeatherKinds \cup NewsKinds) = 0

\* The weather fetch succeeded first and the news fetch failed after it.
C6_Witness ==
    /\ Succeeded("all1") /\ Failed("all2")
    /\ firstSettled["all"] = "all1"

(***************************************************************************)
(* C7.  The three entry points side by side, under one combination of      *)
(* weather and news answers.                                               *)
(***************************************************************************)
\* A console without what differs between the styles by design: the labels,
\* and the version named in the banner lines.
Unlabelled(lines) ==
    [i \in 1..Len(lines) |->
       [ch |-> lines[i].ch, kind |-> lines[i].kind,
        text |-> IF lines[i].kind \in {"version", "complete"} THEN ""
                 ELSE lines[i].text,
        err |-> lines[i].err]]

\* No fetch of these slots is in flight and their program has started.
Quiescent(program, slots) ==
    /\ program \in started
    /\ \A s \in slots : fetch[s].st # "pending"

\* What callbackController rendered for its weather and news stages.
CallbackStages12 ==
    LET Keep(l) ==
          /\ l.kind \in WeatherKinds \cup NewsKinds \cup {"error"}
          /\ l.label \notin {"Callback - Second Fetch", "Second Weather Fetch"}
    IN  SelectSeq(out["callback"], Keep)

\* What promiseController's sequential chain rendered for its two stages.
SeqChainStages ==
    OfKinds(out["seq"], WeatherKinds \cup NewsKinds \cup {"error"})

\* C7 as claimed: once the runs are over, the consoles of the three entry
\* points show the same outcome (callbackController against asyncController
\* line by line, and against promiseController's sequential chain for the
\* weather and news stages).
C7_IdenticalOutcomes ==
    (/\ Quiescent("callback", {"cb1", "cb2", "cb3"})
     /\ Quiescent("async", {"aw1", "aw2", "aw3"})
     /\ Quiescent("promise", {"seq1", "seq2"})) =>
       /\ Unlabelled(out["callback"]) = Unlabelled(out["async"])
       /\ Unlabelled(CallbackStages12) = Unlabelled(SeqChainStages)

\* C7 as amended: for every combination of weather and news answers,
\* callbackController's weather and news stages and promiseController's
\* sequential chain render the same lines in the same order (up to their
\* labels) and abort the same fetch: the news fetch is issued by both or by
\* neither.
C7_SequentialStylesAgree ==
    (/\ Quiescent("callback", {"cb1", "cb2"})
     /\ Quiescent("promise", {"seq1", "seq2"})) =>
       /\ Unlabelled(CallbackStages12) = Unlabelled(SeqChainStages)
       /\ (fetch["cb2"].st = "idle") <=> (fetch["seq2"].st = "idle")

\* Both sequential styles rendered the weather and then met a news failure,
\* while asyncController, under the same answers, rendered no weather.
C7_Witness ==
    /\ Quiescent("callback", {"cb1", "cb2"})
    /\ Quiescent("promise", {"seq1", "seq2"})
    /\ Failed("cb2") /\ Failed("seq2") /\ Failed("aw2") /\ Succeeded("aw1")
    /\ CountKinds(CallbackStages12, WeatherKinds) > 0
    /\ CountKinds(out["async"], WeatherKinds) = 0

(***************************************************************************)
(* C8.  The fetcher produces its outcome exactly once and, when the        *)
(* outcome comes from a response, only after the whole body has arrived.   *)
(***************************************************************************)
C8_OutcomeOnceAfterWholeBody ==
    /\ Len(reqCalls) <= 1
    /\ \A i \in 1..Len(reqCalls) :
         reqCalls[i].at \in {"response", "end"} => reqCalls[i].drained

(***************************************************************************)
(* C9.  For a response with status >= 400 the outcome produced from it is  *)
(* a failure whose message holds the status code and the whole body as it  *)
(* was sent, chunk after chunk; a response with a lower status is never    *)
(* turned into an HTTP error.                                              *)
(***************************************************************************)
C9_ErrorStatusCarriesBody ==
    \A i \in 1..Len(reqCalls) :
       LET c == reqCalls[i] IN
       c.at \in {"response", "end"} =>
          IF reqStatus >= HttpErrorThreshold
          THEN /\ ~c.outcome.ok
               /\ c.outcome.val.kind = "HttpError"
               /\ c.outcome.val.status = reqStatus
               /\ c.outcome.val.body = Concat(reqBody)
          ELSE c.outcome.ok \/ c.outcome.val.kind # "HttpError"

(***************************************************************************)
(* C10.  httpGetJson and httpGetJsonPromise never throw out of the call,   *)
(* and once the request is over the caller has been handed an outcome.     *)
(***************************************************************************)
C10_NeverThrowsAlwaysAnswers ==
    reqVariant \in {"httpGetJson", "httpGetJsonPromise"} =>
       /\ reqPhase # "threw"
       /\ reqPhase = "closed" => Len(reqCalls) >= 1

(***************************************************************************)
(* C11.  A response with a status below 400 whose body has been emitted    *)
(* completely: the outcome the 'end' listener produces from it is a        *)
(* success carrying the value the whole body, chunk after chunk, parses    *)
(* to when that text is well-formed JSON, and otherwise a parse failure    *)
(* carrying the text the parser rejected.  Nothing else is produced on     *)
(* this path, except that httpGetJson / httpsGetJson hand the exception of *)
(* a throwing callback back to that callback (the subject of C29).         *)
(***************************************************************************)
\* The calls made by the 'end' listener, in the order they were made.
EndCalls == {i \in 1..Len(reqCalls) : reqCalls[i].at = "end"}

C12_TransportFaultIsFailure ==
    \A i \in 1..Len(reqCalls) :
       reqCalls[i].at = "error" =>
          /\ ~reqCalls[i].outcome.ok
          /\ reqCalls[i].outcome.val.kind = "TransportError"
          /\ reqCalls[i].outcome.val.text = NetworkError.text
          /\ \A j \in 1..Len(reqCalls) : ~reqCalls[j].outcome.ok

\* The connection was reset after the first chunk of a 200 response.
C12_Witness ==
    /\ reqStatus = 200
    /\ reqArrived = 1
    /\ Len(reqBody) > 1
    /\ Len(reqCalls) = 1
    /\ reqCalls[1].at = "error"

(***************************************************************************)
(* C13.  Promise.race, after the race has settled: the step in which the   *)
(* other fetch settles, with a payload or with a failure, prints nothing   *)
(* on any console and leaves no rejection unhandled.                       *)
(***************************************************************************)
C13_RaceLoserHasNoEffect ==
    [][(/\ raceState \in {"fulfilled", "rejected"}
        /\ \E s \in {"race1", "race2"} :
              fetch[s].st = "pending" /\ fetch'[s].st = "settled") =>
          (out' = out /\ escaped' = escaped)]_vars

\* The winner was rendered and the other fetch failed after it.
C13_Witness ==
    /\ firstSettled["race"] # "none"
    /\ Succeeded(firstSettled["race"])
    /\ Failed(RaceLoser)
    /\ CountKinds(out["race"], {"raceWinner"}) = 1
    /\ CountKinds(out["race"], {"error"}) = 0

(***************************************************************************)
(* C14.  Promise.race won by a payload that has neither a truthy           *)
(* current_weather nor a truthy articles field: the console of the race    *)
(* shows, after the winner banner, a line that renders this winner.        *)
(***************************************************************************)
C14_UnclassifiedWinnerRendered ==
    LET first == firstSettled["race"] IN
    IF first = "none" \/ ~Succeeded(first) THEN TRUE
    ELSE LET winner == fetch[first].res.val IN
         (/\ ~Truthy(OptGet(winner, "current_weather"))
          /\ ~Truthy(OptGet(winner, "articles"))) =>
            \E i \in 1..Len(out["race"]) : out["race"][i].kind # "raceWinner"

(***************************************************************************)
(* C15.  Every entry point, under every combination of fetch outcomes:     *)
(* when each issued fetch settles, the run reaches a state in which the    *)
(* entry point has started and no fetch is pending, and stays there; and   *)
(* at no point has an exception or a rejection been left uncaught.         *)
(***************************************************************************)
Terminated ==
    /\ entry \subseteq started
    /\ \A s \in Slots : fetch[s].st # "pending"

C15_RunsToQuiescence == <>[]Terminated /\ [](escaped = {})

\* promiseController came to rest after every one of its blocks met a
\* failure.
C15_Witness ==
    /\ Terminated
    /\ "promise" \in started
    /\ Failed("seq1") /\ Failed("all1") /\ Failed("all2")
    /\ Failed("race1") /\ Failed("race2")
    /\ escaped = {}

(***************************************************************************)
(* C16.  Every request sent by httpGetJson / httpGetJsonPromise carries    *)
(* User-Agent: AsyncWeatherNewsDashboard/1.0 whatever headers the caller   *)
(* supplied, and carries every other header of the caller as supplied.     *)
(***************************************************************************)
C16_IdentifyingHeaderKept ==
    (reqPhase = "sent" /\ ~IsInlineVariant(reqVariant)) =>
       /\ reqHeaders["User-Agent"] = UserAgent
       /\ \A h \in HeaderNames \ {"User-Agent"} : reqHeaders[h] = reqOptions[h]

(***************************************************************************)
(* C17.  End to end through callbackController, every weather fetch        *)
(* answering {"current_weather":{"temperature":22,"windspeed":8.3}}.       *)
(***************************************************************************)
\* The payload and error lines of callbackController's console.
CallbackRendered ==
    OfKinds(out["callback"], WeatherKinds \cup NewsKinds \cup {"error"})

\* Temperature 22 and windspeed 8.3, the headlines "1. X" and "2. Y", the
\* weather again, and no error line.
EndToEndLines ==
    <<Log("temperature", "Callback", "22"),
      Log("windspeed", "Callback", "8.3"),
      Log("newsHeadlines", "Callback", ""),
      Log("headline", "", "1. X"),
      Log("headline", "", "2. Y"),
      Log("temperature", "Callback - Second Fetch", "22"),
      Log("windspeed", "Callback - Second Fetch", "8.3")>>

\* All three fetches of callbackController succeeded, the weather fetches
\* with the full weather payload and the news fetch with `news`.
EndToEndRun(news) ==
    /\ Succeeded("cb1") /\ Succeeded("cb2") /\ Succeeded("cb3")
    /\ fetch["cb1"].res.val = WeatherValue
    /\ fetch["cb3"].res.val = WeatherValue
    /\ fetch["cb2"].res.val = news

\* C17 as claimed: the news fetch returns the list [{"title":"X"},
\* {"title":"Y"}] and the run renders the weather, "1. X", "2. Y", the
\* weather again, and no error line.
C17_EndToEndArticleList ==
    EndToEndRun(JArr(<<ArticleX, ArticleY>>)) => CallbackRendered = EndToEndLines

\* C17 as amended: the news fetch returns an object whose `articles` field
\* is that list, {"articles":[{"title":"X"},{"title":"Y"}]}, and the run
\* renders the weather, "1. X", "2. Y", the weather again, and no error line.
C17_EndToEndArticlesField ==
    EndToEndRun(JObj([articles |-> JArr(<<ArticleX, ArticleY>>)])) =>
       CallbackRendered = EndToEndLines

\* Such a run has completed: the footer is on the console.
C17_Witness ==
    /\ EndToEndRun(JObj([articles |-> JArr(<<ArticleX, ArticleY>>)]))
    /\ CountKinds(out["callback"], {"complete"}) = 1
    /\ CountKinds(out["callback"], {"headline"}) = 2

(***************************************************************************)
(* C18.  A news fetch that succeeds with an empty article list             *)
(* ({"articles":[]}): wherever an orchestrator renders that payload it     *)
(* prints the "no news articles available" notice, the news stage leaves   *)
(* no error line, and the stage after it is started (the second weather    *)
(* fetch of callbackController, the completion line of the promise chain,  *)
(* the additional fetch of asyncController).                               *)
(***************************************************************************)
\* The payload is an object whose articles field is the empty list.
HasEmptyArticles(slot) ==
    /\ Succeeded(slot)
    /\ LET articles == OptGet(fetch[slot].res.val, "articles")
       IN  articles.t = "arr" /\ Len(articles.a) = 0

\* No error line of the console names this context.
NoErrorFrom(lines, context) ==
    \A i \in 1..Len(lines) :
       ~(lines[i].kind = "error" /\ lines[i].label = context)

C18_EmptyArticlesNotice ==
    /\ HasEmptyArticles("cb2") =>
         /\ OfKinds(out["callback"], NewsKinds)
              = <<Log("newsUnavailable", "Callback", "")>>
         /\ NoErrorFrom(out["callback"], "News Fetch")
         /\ fetch["cb3"].st # "idle"
    /\ HasEmptyArticles("seq2") =>
         OfKinds(out["seq"], NewsKinds \cup {"error", "chainComplete"})
           = <<Log("newsUnavailable", "Promise - Sequential", ""),
               Log("chainComplete", "Promise - Sequential", "")>>
    /\ \A b \in AllBlocks :
         (Succeeded(b.first) /\ HasEmptyArticles(b.second)) =>
            /\ OfKinds(out[b.strand], NewsKinds)
                 = <<Log("newsUnavailable", b.label, "")>>
            /\ NoErrorFrom(out[b.strand], "Promise.all")
            /\ NoErrorFrom(out[b.strand], "Async/Await Run")
            /\ b.block = "async" => fetch["aw3"].st # "idle"
    /\ (firstSettled["race"] = "race2" /\ HasEmptyArticles("race2")) =>
         out["race"] = <<Log("raceWinner", "Promise.race", ""),
                         Log("newsFirst", "Promise.race", ""),
                         Log("newsUnavailable", "Promise.race", "")>>

\* callbackController went through an empty article list to its footer.
C18_Witness ==
    /\ HasEmptyArticles("cb2")
    /\ Succeeded("cb3")
    /\ CountKinds(out["callback"], {"newsUnavailable"}) = 1
    /\ CountKinds(out["callback"], {"complete"}) = 1

(***************************************************************************)
(* C19.  A weather fetch that succeeds with a payload without              *)
(* current_weather, in the sequential and the parallel-all orchestrators:  *)
(* the payload is rendered as "weather data unavailable", no error line    *)
(* comes before or instead of that notice, and the next stage goes on (the *)
(* news fetch is issued, the news of a Promise.all is rendered, the footer *)
(* follows the second weather fetch).                                      *)
(***************************************************************************)
\* The payload has no current_weather object.
LacksWeather(slot) ==
    /\ Succeeded(slot)
    /\ ~Truthy(OptGet(fetch[slot].res.val, "current_weather"))

\* The first weather or error line of a console is this notice.
FirstIsUnavailable(lines, label) ==
    StartsWith(OfKinds(lines, WeatherKinds \cup {"error"}),
               <<Log("weatherUnavailable", label, "")>>)

C19_MissingWeatherIsSuccess ==
    /\ LacksWeather("cb1") =>
         /\ FirstIsUnavailable(out["callback"], "Callback")
         /\ NoErrorFrom(out["callback"], "Weather Fetch")
         /\ fetch["cb2"].st # "idle"
    /\ LacksWeather("cb3") =>
         /\ NoErrorFrom(out["callback"], "Second Weather Fetch")
         /\ LET n == Len(out["callback"]) IN
            SubSeq(out["callback"], n - 3, n)
              = <<Log("weatherUnavailable", "Callback - Second Fetch", "")>>
                  \o displayFooter("Callback")
    /\ LacksWeather("seq1") =>
         /\ FirstIsUnavailable(out["seq"], "Promise - Sequential")
         /\ fetch["seq2"].st # "idle"
    /\ \A b \in AllBlocks :
         (LacksWeather(b.first) /\ Succeeded(b.second)) =>
            /\ FirstIsUnavailable(out[b.strand], b.label)
            /\ CountKinds(out[b.strand], NewsKinds) > 0
    /\ LacksWeather("aw3") =>
         /\ NoErrorFrom(out["async"], "Additional Weather Fetch")
         /\ CountKinds(out["async"], {"weatherUnavailable"}) > 0

\* callbackController rendered the notice and then both headlines.
C19_Witness ==
    /\ LacksWeather("cb1")
    /\ Succeeded("cb2")
    /\ CountKinds(out["callback"], {"weatherUnavailable"}) = 1
    /\ CountKinds(out["callback"], {"headline"}) = 2

(***************************************************************************)
(* C20.  The view never throws: for every payload of a successful news     *)
(* fetch that a controller hands on, displayNews returns normally.         *)
(***************************************************************************)
C20_DisplayNeverThrows ==
    /\ \A s \in {"cb2", "seq2"} :
         Succeeded(s) =>
            ~displayNews(ArticlesOf(fetch[s].res.val), "").threw
    /\ \A b \in AllBlocks :
         (Succeeded(b.first) /\ Succeeded(b.second)) =>
            ~displayNews(ArticlesOf(fetch[b.second].res.val), b.label).threw

(***************************************************************************)
(* C21.  asyncController: the footer is rendered at most once, nothing is  *)
(* rendered after it, and once run() has ended (no fetch of it is still    *)
(* pending) it has been rendered exactly once: when the parallel fetch     *)
(* failed, when the additional fetch failed and when everything succeeded. *)
(***************************************************************************)
\* lines ends with suffix.
EndsWith(lines, suffix) ==
    /\ Len(suffix) <= Len(lines)
    /\ SubSeq(lines, Len(lines) - Len(suffix) + 1, Len(lines)) = suffix

AsyncSlots == {"aw1", "aw2", "aw3"}

C21_FooterOnceAndLast ==
    LET lines == out["async"]
        footers == CountKinds(lines, {"complete"})
    IN  /\ footers <= 1
        /\ footers = 1 => EndsWith(lines, displayFooter("Async/Await"))
        /\ Quiescent("async", AsyncSlots) => footers = 1

\* The parallel fetch failed, both of its fetches have settled, and the
\* footer closes the console after the error line.
C21_Witness ==
    /\ Failed("aw1") /\ IsSettled("aw2") /\ fetch["aw3"].st = "idle"
    /\ CountKinds(out["async"], {"error"}) = 1
    /\ EndsWith(out["async"], displayFooter("Async/Await"))

(***************************************************************************)
(* C22.  Every news request an orchestrator sends carries the API key in   *)
(* its X-Api-Key header and nowhere in the query string of its URL; no     *)
(* weather request carries the key, neither in a header nor in its URL.    *)
(***************************************************************************)
\* Every request sent so far, entry point by entry point.
Requests == wire["callback"] \o wire["promise"] \o wire["async"]

\* The key is a query parameter of the URL, by name or by value.
KeyInQuery(url) ==
    \E param \in url.query : param[1] = "apiKey" \/ param[2] = NewsApiKey

\* The key is the value of some header.
KeyInHeaders(headers) == \E h \in HeaderNames : headers[h] = NewsApiKey

C22_KeyInHeaderOnly ==
    \A i \in 1..Len(Requests) :
       LET request == Requests[i] IN
       IF request.api = "news"
       THEN /\ request.headers["X-Api-Key"] = NewsApiKey
            /\ ~KeyInQuery(request.url)
       ELSE /\ ~KeyInHeaders(request.headers)
            /\ ~KeyInQuery(request.url)

\* promiseController has sent all six of its requests, three for weather and
\* three for news.
C22_Witness ==
    /\ Len(Requests) = 6
    /\ Cardinality({i \in 1..Len(Requests) : Requests[i].api = "news"}) = 3
    /\ Cardinality({i \in 1..Len(Requests) : Requests[i].api = "weather"}) = 3

(***************************************************************************)
(* C23.  The sequential orchestrations as the machine Idle -> FetchingA -> *)
(* FetchingB -> FetchingC -> Done with an absorbing Aborted: the           *)
(* completion marker (callbackController's footer, promiseController's     *)
(* 'Sequential promise chain complete' line) is on the console if and only *)
(* if every stage's fetch succeeded, nothing follows it, and once a        *)
(* stage's fetch has failed no later stage's fetch is issued and no marker *)
(* is rendered.                                                            *)
(***************************************************************************)
\* The two sequential orchestrations: their stages in order, their console
\* and their completion marker.
SequentialRuns ==
    {[stages |-> <<"cb1", "cb2", "cb3">>, strand |-> "callback",
      marker |-> displayFooter("Callback")],
     [stages |-> <<"seq1", "seq2">>, strand |-> "seq",
      marker |-> <<Log("chainComplete", "Promise - Sequential", "")>>]}

\* The marker of a run is on its console.
MarkerRendered(run) ==
    CountKinds(out[run.strand], {"complete", "chainComplete"}) > 0

C23_MarkerIffEveryStageSucceeded ==
    \A run \in SequentialRuns :
       /\ MarkerRendered(run)
            <=> \A i \in 1..Len(run.stages) : Succeeded(run.stages[i])
       /\ MarkerRendered(run) => EndsWith(out[run.strand], run.marker)
       /\ \A i \in 1..Len(run.stages) :
             Failed(run.stages[i]) =>
                /\ ~MarkerRendered(run)
                /\ \A j \in (i + 1)..Len(run.stages) :
                      fetch[run.stages[j]].st = "idle"

(***************************************************************************)
(* C24.  In the sequential orchestrations a stage's fetch is outstanding   *)
(* only when every earlier stage's fetch succeeded and exactly the earlier *)
(* stages' renderings are on the console, complete and in order; at most   *)
(* one fetch of a sequential orchestration is outstanding at any time, and *)
(* at most two of the Promise.all block and of the Promise.race block.     *)
(***************************************************************************)
\* How many of the slots have a fetch outstanding.
Outstanding(slots) == Cardinality({s \in slots : fetch[s].st = "pending"})

\* What a stage of a sequential orchestration renders for its payload.
StageRender(slot) ==
    LET payload == fetch[slot].res.val IN
    CASE slot = "cb1" -> displayWeather(payload, "Callback")
      [] slot = "cb2" -> displayNews(ArticlesOf(payload), "Callback").lines
      [] slot = "seq1" -> displayWeather(payload, "Promise - Sequential")
      [] OTHER -> <<>>

RECURSIVE StagesRendered(_, _)
\* The renderings of the first n stages, in order.
StagesRendered(stages, n) ==
    IF n = 0 THEN <<>>
    ELSE StagesRendered(stages, n - 1) \o StageRender(stages[n])

\* What is on a console before its first stage renders.
Preamble(strand) ==
    IF strand = "callback" THEN displayHeader("Callback") ELSE <<>>

C24_OneStageAtATime ==
    /\ \A run \in SequentialRuns :
          /\ Outstanding({run.stages[i] : i \in 1..Len(run.stages)}) <= 1
          /\ \A n \in 1..Len(run.stages) :
                fetch[run.stages[n]].st = "pending" =>
                   /\ \A i \in 1..(n - 1) : Succeeded(run.stages[i])
                   /\ out[run.strand]
                        = Preamble(run.strand) \o StagesRendered(run.stages, n - 1)
    /\ Outstanding({"all1", "all2"}) <= 2
    /\ Outstanding({"race1", "race2"}) <= 2

\* promiseController: the chain is at its news fetch with the weather
\* rendered, while both fetches of Promise.all and both of Promise.race are
\* outstanding.
C24_Witness ==
    /\ fetch["seq2"].st = "pending"
    /\ out["seq"] = displayWeather(fetch["seq1"].res.val, "Promise - Sequential")
    /\ Len(out["seq"]) > 0
    /\ Outstanding({"all1", "all2"}) = 2
    /\ Outstanding({"race1", "race2"}) = 2

(***************************************************************************)
(* C25.  Promise.all (promiseController's block, asyncController's run()): *)
(* the two fetches are sent together, before either outcome is awaited,    *)
(* and no payload line of the pair is on the console unless both fetches   *)
(* have settled successfully; a weather payload that arrived first is not  *)
(* rendered while the news fetch is pending.                               *)
(***************************************************************************)
\* The positions on the wire of the request of a slot.
SentAt(slot) == {i \in 1..Len(Requests) : Requests[i].slot = slot}

PayloadKinds == WeatherKinds \cup NewsKinds \cup {"allResults"}

C25_AllRendersOnlyWhenBothSucceeded ==
    \A b \in AllBlocks :
       /\ SentAt(b.first) = {} <=> SentAt(b.second) = {}
       /\ IsSettled(b.first) \/ IsSettled(b.second) =>
             SentAt(b.first) # {} /\ SentAt(b.second) # {}
       /\ CountKinds(out[b.strand], PayloadKinds) > 0 =>
             Succeeded(b.first) /\ Succeeded(b.second)

\* The weather fetch of promiseController's Promise.all has succeeded with a
\* full payload, the news fetch is pending, and nothing has been rendered.
C25_Witness ==
    /\ Succeeded("all1")
    /\ Truthy(OptGet(fetch["all1"].res.val, "current_weather"))
    /\ fetch["all2"].st = "pending"
    /\ out["all"] = <<>>

(***************************************************************************)
(* C26.  Promise.all fails fast: the step in which one fetch of the pair   *)
(* fails while the other is pending renders the block's error line with    *)
(* that failure (followed by the footer in run()) and leaves the other     *)
(* fetch pending; the step in which that other fetch later settles, with   *)
(* a payload or with an error, renders nothing and lets nothing escape.    *)
(***************************************************************************)
\* The context of a Promise.all block's error line and what follows it.
AllContext(b) == IF b.block = "all" THEN "Promise.all" ELSE "Async/Await Run"
AllAfterError(b) ==
    IF b.block = "async" THEN displayFooter("Async/Await") ELSE <<>>

\* The two fetches of a block, each with its partner.
AllPairs(b) == {<<b.first, b.second>>, <<b.second, b.first>>}

C26_AllFailsFast ==
    [][\A b \in AllBlocks : \A pair \in AllPairs(b) :
         LET slot == pair[1]
             other == pair[2]
         IN  /\ (/\ fetch[slot].st = "pending" /\ Failed(slot)'
                 /\ fetch[other].st = "pending") =>
                   /\ out'[b.strand]
                        = out[b.strand]
                            \o displayError(AllContext(b), fetch'[slot].res.val)
                            \o AllAfterError(b)
                   /\ fetch'[other].st = "pending"
             /\ (/\ Failed(slot) /\ fetch[other].st = "pending"
                 /\ IsSettled(other)') =>
                   /\ out' = out
                   /\ escaped' = escaped]_vars

\* The weather fetch of promiseController's Promise.all failed first, the
\* news fetch succeeded after it, and the console holds the one error line.
C26_Witness ==
    /\ Failed("all1") /\ Succeeded("all2")
    /\ firstSettled["all"] = "all1"
    /\ out["all"] = displayError("Promise.all", fetch["all1"].res.val)

(***************************************************************************)
(* C27.  Promise.all, both fetches failed: the block's console holds       *)
(* exactly one error line, it carries the failure of the fetch that        *)
(* settled first, and neither failure has escaped as an unhandled          *)
(* rejection.                                                              *)
(***************************************************************************)
C27_OneErrorForTwoFailures ==
    \A b \in AllBlocks :
       (Failed(b.first) /\ Failed(b.second)) =>
          /\ OfKinds(out[b.strand], {"error"})
               = displayError(AllContext(b), fetch[firstSettled[b.block]].res.val)
          /\ CountKinds(out[b.strand], PayloadKinds) = 0
          /\ \A e \in escaped : e.slot \notin {b.first, b.second}

\* Both fetches of promiseController's Promise.all failed, the news fetch
\* first, with different errors.
C27_Witness ==
    /\ Failed("all1") /\ Failed("all2")
    /\ firstSettled["all"] = "all2"
    /\ fetch["all1"].res.val # fetch["all2"].res.val
    /\ CountKinds(out["all"], {"error"}) = 1

(***************************************************************************)
(* C28.  No retries: the request of a stage is sent at most once, also     *)
(* when it failed, and a fetch is outstanding or settled only if its       *)
(* request was sent; one run of callbackController or of asyncController   *)
(* sends at most 3 requests, one run of promiseController at most 6.       *)
(***************************************************************************)
\* The fetch slots of an entry point.
SlotsOf(program) ==
    CASE program = "callback" -> {"cb1", "cb2", "cb3"}
      [] program = "promise" -> {"seq1", "seq2", "all1", "all2", "race1", "race2"}
      [] OTHER -> AsyncSlots

\* How many requests an entry point has sent.
RequestsOf(program) == Len(wire[program])

MaxRequests(program) == IF program = "promise" THEN 6 ELSE 3

C28_NoRetries ==
    /\ \A s \in Slots :
          /\ Cardinality(SentAt(s)) <= 1
          /\ fetch[s].st # "idle" <=> SentAt(s) # {}
    /\ \A program \in Programs : RequestsOf(program) <= MaxRequests(program)

\* callbackController got to its third stage and that fetch failed: three
\* requests were sent, one per stage.
C28_Witness ==
    /\ Failed("cb3")
    /\ Len(Requests) = 3
    /\ \A s \in SlotsOf("callback") : Cardinality(SentAt(s)) = 1

(***************************************************************************)
(* C29.  httpGetJson hands each request's outcome to the caller's callback *)
(* at most once, also when the callback throws while handling a payload,   *)
(* so no stage of callbackController has on the console both lines of its  *)
(* payload and its error line.                                             *)
(***************************************************************************)
\* The stages of callbackController with the label of their payload lines.
CallbackStages ==
    {[slot |-> "cb1", label |-> "Callback", context |-> "Weather Fetch"],
     [slot |-> "cb2", label |-> "Callback", context |-> "News Fetch"],
     [slot |-> "cb3", label |-> "Callback - Second Fetch",
      context |-> "Second Weather Fetch"]}

\* Lines of a stage's payload are on the console.
StageRendered(stage) ==
    \E i \in 1..Len(out["callback"]) :
       LET l == out["callback"][i] IN
       /\ l.label = stage.label \/ l.kind = "headline"
       /\ l.kind \in (IF ApiOf(stage.slot) = "news" THEN NewsKinds
                      ELSE WeatherKinds)

\* The stage's error line is on the console.
StageErrored(stage) ==
    \E i \in 1..Len(out["callback"]) :
       LET l == out["callback"][i] IN
       l.kind = "error" /\ l.label = stage.context

C29_CallbackInvokedAtMostOnce ==
    \A stage \in CallbackStages :
       /\ cbInvocations[stage.slot] <= 1
       /\ ~(StageRendered(stage) /\ StageErrored(stage))

(***************************************************************************)
(* C30.  promiseController: the sequential chain, the Promise.all block    *)
(* and the Promise.race block are isolated from one another.  Under every  *)
(* interleaving, what a block has rendered is determined by the outcomes   *)
(* of its own fetches alone; its console holds at most one error line, its *)
(* own; and a step in which a fetch of one block settles changes neither   *)
(* the consoles nor the fetches of the other two blocks.                   *)
(***************************************************************************)
\* The blocks of promiseController: their fetches and the context of their
\* error line.  Each block renders to the console of its own name.
PromiseBlocks ==
    {[block |-> "seq", slots |-> {"seq1", "seq2"},
      context |-> "Sequential Chain"],
     [block |-> "all", slots |-> {"all1", "all2"}, context |-> "Promise.all"],
     [block |-> "race", slots |-> {"race1", "race2"},
      context |-> "Promise.race"]}

\* What the chain renders, given the outcomes of its own fetches.
SeqExpected ==
    (IF IsSettled("seq1") THEN SeqWeatherThen(fetch["seq1"].res).lines ELSE <<>>)
      \o (IF IsSettled("seq2") THEN SeqNewsThen(fetch["seq2"].res).lines
          ELSE <<>>)

\* What the Promise.all block renders, given the outcomes of its own fetches
\* and which of them settled first.
AllExpected ==
    LET first == firstSettled["all"]
        second == IF first = "all1" THEN "all2" ELSE "all1"
    IN  IF first = "none" THEN <<>>
        ELSE IF Failed(first)
        THEN displayError("Promise.all", fetch[first].res.val)
        ELSE IF ~IsSettled(second) THEN <<>>
        ELSE IF Failed(second)
        THEN displayError("Promise.all", fetch[second].res.val)
        ELSE ThenCatch(AllThen(<<fetch["all1"].res.val, fetch["all2"].res.val>>),
                       "Promise.all")

\* What the Promise.race block renders, given the outcome of the fetch that
\* settled first.
RaceExpected ==
    LET first == firstSettled["race"] IN
    IF first = "none" THEN <<>>
    ELSE IF Failed(first)
    THEN displayError("Promise.race", fetch[first].res.val)
    ELSE ThenCatch(RaceThen(fetch[first].res.val), "Promise.race")

BlocksRenderTheirOwn ==
    /\ out["seq"] = SeqExpected
    /\ out["all"] = AllExpected
    /\ out["race"] = RaceExpected
    /\ \A b \in PromiseBlocks :
          /\ CountKinds(out[b.block], {"error"}) <= 1
          /\ \A i \in 1..Len(out[b.block]) :
                out[b.block][i].kind = "error" =>
                   out[b.block][i].label = b.context

\* A step in which a fetch of block b settled.
SettledIn(b) ==
    /\ started' = started
    /\ \E s \in b.slots : fetch[s].st = "pending" /\ fetch'[s].st = "settled"

C30_BlocksIsolated ==
    /\ []BlocksRenderTheirOwn
    /\ [][\A b \in PromiseBlocks :
            SettledIn(b) =>
               /\ out'["promise"] = out["promise"]
               /\ \A c \in PromiseBlocks \ {b} :
                     /\ out'[c.block] = out[c.block]
                     /\ \A s \in c.slots : fetch'[s] = fetch[s]]_vars

\* The chain failed at its weather fetch and printed its error line; the
\* Promise.all block rendered both payloads and the Promise.race block its
\* winner.
C30_Witness ==
    /\ Failed("seq1")
    /\ out["seq"] = displayError("Sequential Chain", fetch["seq1"].res.val)
    /\ Succeeded("all1") /\ Succeeded("all2")
    /\ CountKinds(out["all"], {"headline"}) = 2
    /\ CountKinds(out["all"], {"error"}) = 0
    /\ firstSettled["race"] # "none" /\ Succeeded(firstSettled["race"])
    /\ CountKinds(out["race"], {"raceWinner"}) = 1
    /\ CountKinds(out["race"], {"error"}) = 0

(***************************************************************************)
(* C31.  asyncController: once a fetch of the initial Promise.all has      *)
(* failed, the additional weather fetch is not issued, now or later, and   *)
(* the console holds the header, one 'Async/Await Run' error line carrying *)
(* a failure of the pair, and the footer, and nothing else, also when the  *)
(* other fetch of the pair succeeded.                                      *)
(***************************************************************************)
C31_ParallelFailureEndsRun ==
    (Failed("aw1") \/ Failed("aw2")) =>
       /\ fetch["aw3"].st = "idle"
       /\ SentAt("aw3") = {}
       /\ \E s \in {"aw1", "aw2"} :
             /\ Failed(s)
             /\ out["async"]
                  = displayHeader("Async/Await")
                      \o displayError("Async/Await Run", fetch[s].res.val)
                      \o displayFooter("Async/Await")

\* The weather fetch succeeded with a full payload, the news fetch failed,
\* and no weather line is on the console.
C31_Witness ==
    /\ Succeeded("aw1")
    /\ Truthy(OptGet(fetch["aw1"].res.val, "current_weather"))
    /\ Failed("aw2")
    /\ CountKinds(out["async"], {"error"}) = 1
    /\ CountKinds(out["async"], PayloadKinds) = 0

(***************************************************************************)
(* C32.  Promise.race, won by a payload, whichever request produced it:    *)
(* when the payload has a truthy current_weather the console holds the     *)
(* banner, the weather notice and the weather rendering of that payload,   *)
(* also when it has articles too; when it has truthy articles and no       *)
(* truthy current_weather the console holds the banner, the news notice    *)
(* and the news rendering of its articles; weather lines and news lines    *)
(* are never both on the console of one race.                              *)
(***************************************************************************)
RaceBanner == <<Log("raceWinner", "Promise.race", "")>>

C32_WinnerByShape ==
    LET first == firstSettled["race"] IN
    /\ (first # "none" /\ fetch[first].res.ok) =>
          LET payload == fetch[first].res.val
              weather == Truthy(OptGet(payload, "current_weather"))
              news == Truthy(OptGet(payload, "articles"))
          IN  /\ weather =>
                    out["race"]
                      = RaceBanner \o <<Log("weatherFirst", "Promise.race", "")>>
                          \o displayWeather(payload, "Promise.race")
              /\ (news /\ ~weather) =>
                    out["race"]
                      = RaceBanner \o <<Log("newsFirst", "Promise.race", "")>>
                          \o ThenCatch(displayNews(OptGet(payload, "articles"),
                                                   "Promise.race"),
                                       "Promise.race")
    /\ ~(/\ CountKinds(out["race"], WeatherKinds \cup {"weatherFirst"}) > 0
         /\ CountKinds(out["race"], NewsKinds \cup {"newsFirst"}) > 0)

\* The news request won the race with a payload that has both a
\* current_weather and an articles field, and the weather was rendered.
C32_Witness ==
    /\ firstSettled["race"] = "race2"
    /\ fetch["race2"].res = Success(BothValue)
    /\ CountKinds(out["race"], {"weatherFirst"}) = 1
    /\ CountKinds(out["race"], {"temperature"}) = 1

====
